---------------------------- MODULE Spec2Model ----------------------------
(***************************************************************************)
(* A model of qr_logo_overlay.py: Otsu thresholding, QR geometry           *)
(* detection, logo colour picking and the overlay compositing loop.        *)
(*                                                                         *)
(* Python floats are IEEE-754 binary64.  The program rounds products of    *)
(* several float operations to pixel indices, so the model carries the     *)
(* floats exactly: a float is a record [s, m, e] standing for s * m * 2^e  *)
(* with the natural number m < 2^53 kept as a little-endian sequence of    *)
(* base-2^15 limbs, and every float operation rounds to nearest, ties to   *)
(* even, as the hardware does.                                             *)
(***************************************************************************)
EXTENDS Integers, Sequences, FiniteSets, TLC

VARIABLES
    pc,               \* where the run stands: "start", "loop", "done", "error"
    err,              \* the message of the error raised, or None
    gray,             \* to_gray(qr_img): the grayscale QR bitmap
    qr_threshold,     \* detect_qr_geometry's optional threshold
    otsu_thresh,      \* the value otsu_threshold returned
    qr_img,           \* the RGBA QR bitmap
    modules_override, \* --modules
    quiet_override,   \* --quiet
    geo,              \* the QRGeometry obtained
    logo,             \* the RGBA logo bitmap
    args,             \* square_frac, radius, threshold_logo, alpha, skip_finders
    overlay,          \* the RGBA overlay being painted
    rects,            \* the rectangles handed to draw.rectangle so far
    row, col,         \* the module (of the loop, or of the call)
    want_dark,        \* the darkness wanted for the module
    pix,              \* the colour resolved for the module
    saved,            \* the bitmap overlay.save wrote to out_path, or None
    rgb,              \* adjust_color_toward's result
    n_modules,        \* in_finder's module count
    finder            \* in_finder's result

vars == <<pc, err, gray, qr_threshold, otsu_thresh, qr_img, modules_override,
          quiet_override, geo, logo, args, overlay, rects, row, col,
          want_dark, pix, saved, rgb, n_modules, finder>>

None == "None"
\* an Optional[int]: << >> for None, <<v>> for the integer v
NoInt == << >>
Some(v) == <<v>>

---------------------------------------------------------------------------
(* Natural numbers of arbitrary size (Python int, float mantissas).        *)

LimbBase == 32768
LimbBits == 15
MantBits == 53

RECURSIVE Pow2(_)
Pow2(k) == IF k = 0 THEN 1 ELSE 2 * Pow2(k - 1)

RECURSIVE BigOf(_)
BigOf(k) == IF k = 0 THEN << >> ELSE <<k % LimbBase>> \o BigOf(k \div LimbBase)

RECURSIVE BigToInt(_)
BigToInt(a) == IF a = << >> THEN 0 ELSE Head(a) + LimbBase * BigToInt(Tail(a))

RECURSIVE BigNorm(_)
BigNorm(a) ==
    IF a = << >> THEN a
    ELSE IF a[Len(a)] = 0 THEN BigNorm(SubSeq(a, 1, Len(a) - 1)) ELSE a

RECURSIVE BigAddC(_, _, _)
BigAddC(a, b, c) ==
    IF a = << >> /\ b = << >> THEN (IF c = 0 THEN << >> ELSE <<c>>)
    ELSE LET x == IF a = << >> THEN 0 ELSE Head(a)
             y == IF b = << >> THEN 0 ELSE Head(b)
             t == x + y + c
         IN  <<t % LimbBase>> \o
             BigAddC(IF a = << >> THEN a ELSE Tail(a),
                     IF b = << >> THEN b ELSE Tail(b), t \div LimbBase)

BigAdd(a, b) == BigAddC(a, b, 0)

\* a - b for a >= b
RECURSIVE BigSubB(_, _, _)
BigSubB(a, b, br) ==
    IF a = << >> THEN << >>
    ELSE LET y == IF b = << >> THEN 0 ELSE Head(b)
             t == Head(a) - y - br
         IN  <<t % LimbBase>> \o
             BigSubB(Tail(a), IF b = << >> THEN b ELSE Tail(b),
                     IF t < 0 THEN 1 ELSE 0)

BigSub(a, b) == BigNorm(BigSubB(a, b, 0))

\* -1, 0, 1 as a < b, a = b, a > b (both normalised)
RECURSIVE BigCmp(_, _)
BigCmp(a, b) ==
    IF Len(a) # Len(b) THEN (IF Len(a) < Len(b) THEN -1 ELSE 1)
    ELSE IF a = << >> THEN 0
    ELSE IF a[Len(a)] # b[Len(b)] THEN (IF a[Len(a)] < b[Len(b)] THEN -1 ELSE 1)
    ELSE BigCmp(SubSeq(a, 1, Len(a) - 1), SubSeq(b, 1, Len(b) - 1))

\* a * k for 0 <= k < 2^15
RECURSIVE BigMulLimbC(_, _, _)
BigMulLimbC(a, k, c) ==
    IF a = << >> THEN (IF c = 0 THEN << >> ELSE <<c>>)
    ELSE LET t == Head(a) * k + c
         IN  <<t % LimbBase>> \o BigMulLimbC(Tail(a), k, t \div LimbBase)

BigMulLimb(a, k) == BigNorm(BigMulLimbC(a, k, 0))

RECURSIVE BigMul(_, _)
BigMul(a, b) ==
    IF a = << >> \/ b = << >> THEN << >>
    ELSE BigAdd(BigMulLimb(a, Head(b)),
                LET r == BigMul(a, Tail(b)) IN IF r = << >> THEN r ELSE <<0>> \o r)

\* <<quotient, remainder>> of a by d, 0 < d < 2^15, most significant limb first
RECURSIVE BigDivLimbR(_, _, _)
BigDivLimbR(a, d, i) ==
    IF i = 0 THEN << << >>, 0 >>
    ELSE LET hi == BigDivLimbR(a, d, i - 1)
             \* limbs are consumed from the top: step i handles a[Len(a)-i+1]
             t  == hi[2] * LimbBase + a[Len(a) - i + 1]
         IN  << <<t \div d>> \o hi[1], t % d >>

BigDivLimb(a, d) ==
    LET r == BigDivLimbR(a, d, Len(a)) IN << BigNorm(r[1]), r[2] >>

RECURSIVE BitLenInt(_)
BitLenInt(k) == IF k = 0 THEN 0 ELSE 1 + BitLenInt(k \div 2)

BigBitLen(a) ==
    IF a = << >> THEN 0 ELSE LimbBits * (Len(a) - 1) + BitLenInt(a[Len(a)])

\* a * 2^k
RECURSIVE BigShl(_, _)
BigShl(a, k) ==
    IF a = << >> THEN a
    ELSE IF k >= LimbBits THEN <<0>> \o BigShl(a, k - LimbBits)
    ELSE IF k = 0 THEN a ELSE BigMulLimb(a, Pow2(k))

\* <<floor(a / 2^k), guard, sticky>> for k >= 1: guard is the first bit shifted
\* out, sticky tells whether any later bit shifted out (or st) was set.
RECURSIVE BigShrGS(_, _, _)
BigShrGS(a, k, st) ==
    IF a = << >> THEN <<a, 0, st>>
    ELSE IF k > LimbBits
         THEN BigShrGS(Tail(a), k - LimbBits, st \/ Head(a) # 0)
    ELSE LET p  == Pow2(k)
             qr == BigDivLimb(a, p)
             h  == p \div 2
         IN  <<qr[1], (IF qr[2] >= h THEN 1 ELSE 0), st \/ qr[2] % h # 0>>

BigIsOdd(a) == a # << >> /\ Head(a) % 2 = 1

\* round(a / 2^k) to nearest, ties to even; st0: bits below a are not all zero
BigShrRound(a, k, st0) ==
    IF k = 0 THEN a
    ELSE LET r == BigShrGS(a, k, st0)
         IN  IF r[2] = 1 /\ (r[3] \/ BigIsOdd(r[1]))
             THEN BigAdd(r[1], <<1>>) ELSE r[1]

---------------------------------------------------------------------------
(* IEEE-754 binary64 values and operations (Python float).                 *)

FZero == [s |-> 1, m |-> << >>, e |-> 0]

\* the float nearest to s * m * 2^e (st: a non-zero remainder lies below m)
Fl(s, m, e, st) ==
    LET len == BigBitLen(m)
    IN  IF len <= MantBits THEN [s |-> s, m |-> m, e |-> e]
        ELSE [s |-> s, m |-> BigShrRound(m, len - MantBits, st),
              e |-> e + len - MantBits]

FromInt(k) == [s |-> IF k < 0 THEN -1 ELSE 1, m |-> BigOf(IF k < 0 THEN -k ELSE k),
               e |-> 0]

FMul(x, y) == Fl(x.s * y.s, BigMul(x.m, y.m), x.e + y.e, FALSE)

\* x / y where y's mantissa fits one limb (every divisor of the program is a
\* small integer or a small half-integer)
FDivGuard == 72
FDiv(x, y) ==
    LET k  == FDivGuard + BigBitLen(y.m) - BigBitLen(x.m)
        qr == BigDivLimb(BigShl(x.m, k), BigToInt(y.m))
    IN  IF x.m = << >> THEN FZero
        ELSE Fl(x.s * y.s, qr[1], x.e - y.e - k, qr[2] # 0)

\* the exact sum as <<sign, mantissa, exponent>>
FSumExact(x, y) ==
    LET e0 == IF x.e < y.e THEN x.e ELSE y.e
        a  == BigShl(x.m, x.e - e0)
        b  == BigShl(y.m, y.e - e0)
        c  == BigCmp(a, b)
    IN  IF x.s = y.s THEN <<x.s, BigAdd(a, b), e0>>
        ELSE IF c = 0 THEN <<1, << >>, 0>>
        ELSE IF c > 0 THEN <<x.s, BigSub(a, b), e0>>
        ELSE <<y.s, BigSub(b, a), e0>>

FNeg(x) == [x EXCEPT !.s = -x.s]
FAdd(x, y) == LET r == FSumExact(x, y) IN Fl(r[1], r[2], r[3], FALSE)
FSub(x, y) == FAdd(x, FNeg(y))

\* -1, 0, 1 as x < y, x = y, x > y
FCmp(x, y) ==
    LET r == FSumExact(x, FNeg(y)) IN IF r[2] = << >> THEN 0 ELSE r[1]
FLess(x, y) == FCmp(x, y) < 0

FMin(x, y) == IF FLess(y, x) THEN y ELSE x
FMax(x, y) == IF FLess(x, y) THEN y ELSE x

\* Python round(x) for a float: nearest integer, ties to even
PyRound(x) ==
    LET mag == IF x.e >= 0 THEN BigShl(x.m, x.e) ELSE BigShrRound(x.m, -x.e, FALSE)
    IN  x.s * BigToInt(mag)

\* the float of a decimal literal p / q (0.40 is Lit(40, 100))
Lit(p, q) == FDiv(FromInt(p), FromInt(q))

\* a float as a value of the state: the odd mantissa (as a plain integer when
\* it fits) and the exponent
RECURSIVE FCanonR(_, _)
FCanonR(m, e) == IF m # << >> /\ Head(m) % 2 = 0
                 THEN FCanonR(BigDivLimb(m, 2)[1], e + 1) ELSE <<m, e>>
FCanon(x) == IF x.m = << >> THEN FZero
             ELSE LET r == FCanonR(x.m, x.e) IN [s |-> x.s, m |-> r[1], e |-> r[2]]

---------------------------------------------------------------------------
(* Bitmaps.  A grayscale bitmap is [W, H, px] with px[x, y] in 0..255; an  *)
(* RGBA bitmap has px[x, y] = <<r, g, b, a>>.                              *)

Pixels(img) == (0 .. img.W - 1) \X (0 .. img.H - 1)

SetMin(S) == CHOOSE x \in S : \A y \in S : x <= y
SetMax(S) == CHOOSE x \in S : \A y \in S : y <= x

clamp(v, lo, hi) == IF v < lo THEN lo ELSE IF v > hi THEN hi ELSE v

NumBins == 256
DefaultThresh == 128

---------------------------------------------------------------------------
(* otsu_threshold                                                          *)

\* np.histogram(gray, bins=256, range=(0, 256))
Histogram(g) ==
    [t \in 0 .. NumBins - 1 |-> Cardinality({p \in Pixels(g) : g.px[p] = t})]

RECURSIVE DotArange(_, _, _)
\* np.dot(np.arange(256), hist) over the bins lo .. hi - 1
DotArange(hist, lo, hi) ==
    IF hi - lo = 1 THEN lo * hist[lo]
    ELSE LET mid == (lo + hi) \div 2
         IN  DotArange(hist, lo, mid) + DotArange(hist, mid, hi)

\* var_between = w_b * w_f * (m_b - m_f) ** 2 with m_b = sum_b / w_b and
\* m_f = (sum_total - sum_b) / w_f, in floats
var_between(w_b, w_f, sum_b, sum_total) ==
    LET m_b == FDiv(FromInt(sum_b), FromInt(w_b))
        m_f == FDiv(FromInt(sum_total - sum_b), FromInt(w_f))
        d   == FSub(m_b, m_f)
    IN  FMul(FromInt(w_b * w_f), FMul(d, d))

\* (mutant) "if var_between >= max_var": keeps the later t on a tie
OtsuBetter_GE(var, max_var) == ~FLess(var, max_var)

\* the update "if var_between > max_var": keeps the earlier t on a tie
OtsuBetter(var, max_var) == FLess(max_var, var)

\* one pass of the body of "for t in range(256)" on the loop's locals
\* st = [w_b, sum_b, max_var, thresh, broke].  When hist[t] = 0 and w_b > 0 the
\* operands of var_between are those of bin t - 1, whose value max_var already
\* dominates, so the pass changes nothing.
OtsuBody(hist, total, sum_total, t, st) ==
    LET w_b == st.w_b + hist[t]
        w_f == total - w_b
    IN  IF st.broke THEN st
        ELSE IF w_b = 0 THEN st
        ELSE IF w_f = 0 THEN [st EXCEPT !.w_b = w_b, !.broke = TRUE]
        ELSE IF hist[t] = 0 THEN st
        ELSE LET sum_b == st.sum_b + t * hist[t]
                 var   == var_between(w_b, w_f, sum_b, sum_total)
             IN  IF OtsuBetter(var, st.max_var)
                 THEN [st EXCEPT !.w_b = w_b, !.sum_b = sum_b, !.max_var = var,
                                 !.thresh = t]
                 ELSE [st EXCEPT !.w_b = w_b, !.sum_b = sum_b]

\* the passes for t = lo .. hi - 1, in order
RECURSIVE OtsuLoop(_, _, _, _, _, _)
OtsuLoop(hist, total, sum_total, lo, hi, st) ==
    IF hi - lo = 1 THEN OtsuBody(hist, total, sum_total, lo, st)
    ELSE LET mid == (lo + hi) \div 2
             st1 == OtsuLoop(hist, total, sum_total, lo, mid, st)
         IN  IF st1.broke THEN st1   \* break
             ELSE OtsuLoop(hist, total, sum_total, mid, hi, st1)

otsu_threshold(g) ==
    LET hist == Histogram(g)
    IN  OtsuLoop(hist, g.W * g.H, DotArange(hist, 0, NumBins), 0, NumBins,
                 [w_b |-> 0, sum_b |-> 0, max_var |-> FromInt(-1),
                  thresh |-> DefaultThresh, broke |-> FALSE]).thresh

---------------------------------------------------------------------------
(* QRGeometry, geo_from_exact_dims                                         *)

QRGeometry(n_, qz_, box_, module_px_, thresh_, dark_is_lt_) ==
    [n_modules |-> n_, qz_modules |-> qz_, content_box |-> box_,
     module_px |-> FCanon(module_px_), thresh |-> thresh_,
     dark_is_lt |-> dark_is_lt_]

ErrNotSquare  == "QR image must be square when using --modules/--quiet override."
ErrNoModules  == "No modules detected in QR image (all flat)."
ErrNoDark     == "No dark modules detected in QR image."
ErrNoRuns     == "Unable to estimate module size from middle row."
ErrBadCount   == "Detected non-positive module count."

Raise(msg) == [raised |-> TRUE, msg |-> msg]
Return(v)  == [raised |-> FALSE, value |-> v]

ExactThresh == 128

\* (mutant) the module size taken over the content modules alone
ExactModulePx_NoQuiet(W, nm, qz) == FDiv(FromInt(W), FromInt(nm))

\* total = n + 2*qz; module_px = W / total
ExactModulePx(W, nm, qz) == FDiv(FromInt(W), FromInt(nm + 2 * qz))

geo_from_exact_dims(img, nm, qz) ==
    IF img.W # img.H THEN Raise(ErrNotSquare)
    ELSE LET module_px == ExactModulePx(img.W, nm, qz)
             left  == PyRound(FMul(FromInt(qz), module_px))
             right == PyRound(FMul(FromInt(qz + nm), module_px)) - 1
         IN  Return(QRGeometry(nm, qz, <<left, left, right, right>>, module_px,
                               ExactThresh, TRUE))

---------------------------------------------------------------------------
(* detect_qr_geometry                                                      *)

ThreshTweak == 10
MaxGray == 255

\* the lengths of the runs of TRUE in a sequence of booleans, in order; cur and
\* cnt are the loop's locals before element i
RECURSIVE RunsFrom(_, _, _, _)
RunsFrom(seq, i, cur, cnt) ==
    IF i > Len(seq) THEN (IF cur THEN <<cnt>> ELSE << >>)
    ELSE IF seq[i] = cur THEN RunsFrom(seq, i + 1, cur, cnt + 1)
    ELSE (IF cur THEN <<cnt>> ELSE << >>) \o RunsFrom(seq, i + 1, seq[i], 1)

RunLengths(seq) == RunsFrom(seq, 2, seq[1], 1)

\* sorted(runs)
RECURSIVE Insert(_, _)
Insert(x, sorted) ==
    IF sorted = << >> THEN <<x>>
    ELSE IF x <= Head(sorted) THEN <<x>> \o sorted
    ELSE <<Head(sorted)>> \o Insert(x, Tail(sorted))

RECURSIVE Sorted(_)
Sorted(seq) == IF seq = << >> THEN seq ELSE Insert(Head(seq), Sorted(Tail(seq)))

\* float(np.median(lower)) of a sorted, non-empty list
Median(lower) ==
    LET k == Len(lower)
    IN  IF k % 2 = 1 THEN FromInt(lower[(k + 1) \div 2])
        ELSE FDiv(FromInt(lower[k \div 2] + lower[k \div 2 + 1]), FromInt(2))

Min2(a, b) == IF a < b THEN a ELSE b
Max2(a, b) == IF a > b THEN a ELSE b

\* (mutant) the width count wins whenever the two counts differ
ModuleCount_Width(n_w, n_h) == n_w

\* n = int(round((n_w + n_h) / 2)) if n_w != n_h else n_w
ModuleCount(n_w, n_h) ==
    IF n_w # n_h THEN PyRound(FDiv(FromInt(n_w + n_h), FromInt(2))) ELSE n_w

\* (mutant) the mask with fewer pixels preferred
UseLt_Fewer(c_lt, c_gt) == c_lt <= c_gt

\* use_lt = c_lt >= c_gt and c_lt > 0
UseLt(c_lt, c_gt) == c_lt >= c_gt /\ c_lt > 0

\* the two masks "gray < t" and "gray > t", the polarity kept, and the mask
\* of the dark pixels after the retry with the widened threshold
DetectMask(g, t) ==
    LET bin_lt == {p \in Pixels(g) : g.px[p] < t}
        bin_gt == {p \in Pixels(g) : g.px[p] > t}
        use_lt == UseLt(Cardinality(bin_lt), Cardinality(bin_gt))
    IN  [c_lt |-> Cardinality(bin_lt), c_gt |-> Cardinality(bin_gt),
         use_lt |-> use_lt,
         first |-> IF use_lt THEN bin_lt ELSE bin_gt,
         widened |-> IF use_lt
                     THEN {p \in Pixels(g) : g.px[p] < Min2(MaxGray, t + ThreshTweak)}
                     ELSE {p \in Pixels(g) : g.px[p] > Max2(0, t - ThreshTweak)}]

\* (left, top, right, bottom) of the mask
ContentBox(bin_black) ==
    <<SetMin({p[1] : p \in bin_black}), SetMin({p[2] : p \in bin_black}),
      SetMax({p[1] : p \in bin_black}), SetMax({p[2] : p \in bin_black})>>

\* the run lengths of the mask on the middle row of the box
MidRowRuns(bin_black, box) ==
    RunLengths([i \in 1 .. box[3] - box[1] + 1 |->
                   <<box[1] + i - 1, (box[2] + box[4]) \div 2>> \in bin_black])

\* float(np.median(runs_sorted[:max(1, len(runs_sorted)//2)]))
LowerMedian(runs_sorted) ==
    Median(SubSeq(runs_sorted, 1, Max2(1, Len(runs_sorted) \div 2)))

\* the counts derived from the box and the module size
DetectCounts(W, H, box, module_px) ==
    LET n_w == PyRound(FDiv(FromInt(box[3] - box[1] + 1), module_px))
        n_h == PyRound(FDiv(FromInt(box[4] - box[2] + 1), module_px))
        qz_px == Min2(Min2(box[1], box[2]), Min2(W - 1 - box[3], H - 1 - box[4]))
    IN  [n_w |-> n_w, n_h |-> n_h, n |-> ModuleCount(n_w, n_h),
         qz_modules |-> Max2(0, PyRound(FDiv(FromInt(qz_px), module_px)))]

\* the locals when the count is derived
DetectWithCounts(base, box, runs, module_px, cnt) ==
    base @@ [raised |-> IF cnt.n <= 0 THEN ErrBadCount ELSE None,
             content_box |-> box, runs |-> runs, module_px |-> FCanon(module_px),
             n_w |-> cnt.n_w, n_h |-> cnt.n_h, n |-> cnt.n,
             qz_modules |-> cnt.qz_modules]

\* the locals from the run lengths on
DetectFromRuns(g, base, box, runs) ==
    IF runs = << >>
    THEN base @@ [raised |-> ErrNoRuns, content_box |-> box, runs |-> runs]
    ELSE DetectWithCounts(base, box, runs, LowerMedian(Sorted(runs)),
                          DetectCounts(g.W, g.H, box, LowerMedian(Sorted(runs))))

\* the locals from the mask of the dark pixels on
DetectFromMask(g, base, bin_black) ==
    DetectFromRuns(g, base, ContentBox(bin_black),
                   MidRowRuns(bin_black, ContentBox(bin_black)))

\* the locals from the masks on
DetectFromMasks(g, t, mk) ==
    IF mk.c_lt = 0 /\ mk.c_gt = 0
    THEN [t |-> t, c_lt |-> mk.c_lt, c_gt |-> mk.c_gt, use_lt |-> mk.use_lt,
          retried |-> FALSE, raised |-> ErrNoModules]
    ELSE IF mk.first = {} /\ mk.widened = {}
    THEN [t |-> t, c_lt |-> mk.c_lt, c_gt |-> mk.c_gt, use_lt |-> mk.use_lt,
          retried |-> TRUE, raised |-> ErrNoDark]
    ELSE DetectFromMask(g, [t |-> t, c_lt |-> mk.c_lt, c_gt |-> mk.c_gt,
                            use_lt |-> mk.use_lt, retried |-> mk.first = {}],
                        IF mk.first = {} THEN mk.widened ELSE mk.first)

\* the locals from the threshold on
DetectFromThresh(g, t) == DetectFromMasks(g, t, DetectMask(g, t))

\* the function's locals; "raised" is None or the message of the error raised
\* at that point, after which no later local is set
DetectLocals(g, thr) ==
    DetectFromThresh(g, IF thr # NoInt THEN thr[1] ELSE otsu_threshold(g))

\* the error raised or the geometry returned, from the locals
DetectResult(loc) ==
    IF loc.raised # None THEN Raise(loc.raised)
    ELSE Return(QRGeometry(loc.n, loc.qz_modules, loc.content_box,
                           loc.module_px, loc.t, loc.use_lt))

detect_qr_geometry(g, thr) == DetectResult(DetectLocals(g, thr))

---------------------------------------------------------------------------
(* in_finder, adjust_color_toward                                          *)

FinderSide == 7

\* (mutant) the bottom-right corner taken as a fourth finder square
in_finder_FourCorners(nm, r, c) ==
    \/ (0 <= r /\ r <= 6) /\ (0 <= c /\ c <= 6)
    \/ (0 <= r /\ r <= 6) /\ (nm - 7 <= c /\ c <= nm - 1)
    \/ (nm - 7 <= r /\ r <= nm - 1) /\ (0 <= c /\ c <= 6)
    \/ (nm - 7 <= r /\ r <= nm - 1) /\ (nm - 7 <= c /\ c <= nm - 1)

\* the three tests of in_finder, in order: top-left, top-right, bottom-left
in_finder(nm, r, c) ==
    IF (0 <= r /\ r <= FinderSide - 1) /\ (0 <= c /\ c <= FinderSide - 1) THEN TRUE
    ELSE IF (0 <= r /\ r <= FinderSide - 1) /\ (nm - FinderSide <= c /\ c <= nm - 1)
    THEN TRUE
    ELSE IF (nm - FinderSide <= r /\ r <= nm - 1) /\ (0 <= c /\ c <= FinderSide - 1)
    THEN TRUE
    ELSE FALSE

MaxChannel == 255

\* a strength given in hundredths, as the float of the decimal literal
Strength(hundredths) == Lit(hundredths, 100)

\* int(round(v * (1 - strength)))
TowardDark(v, strength) ==
    PyRound(FMul(FromInt(v), FSub(FromInt(1), strength)))

\* (mutant) the step taken over the whole range instead of the distance left
TowardLight_WholeRange(v, strength) ==
    PyRound(FAdd(FromInt(v), FMul(FromInt(MaxChannel), strength)))

\* int(round(v + (255 - v) * strength))
TowardLight(v, strength) ==
    PyRound(FAdd(FromInt(v), FMul(FromInt(MaxChannel - v), strength)))

adjust_color_toward(colour, toward_dark, strength) ==
    IF toward_dark
    THEN <<clamp(TowardDark(colour[1], strength), 0, MaxChannel),
           clamp(TowardDark(colour[2], strength), 0, MaxChannel),
           clamp(TowardDark(colour[3], strength), 0, MaxChannel)>>
    ELSE <<clamp(TowardLight(colour[1], strength), 0, MaxChannel),
           clamp(TowardLight(colour[2], strength), 0, MaxChannel),
           clamp(TowardLight(colour[3], strength), 0, MaxChannel)>>

---------------------------------------------------------------------------
(* to_gray, luminance_rgb, cell_bounds, sample_qr_module_dark              *)

White == <<255, 255, 255, 255>>
Black == <<0, 0, 0, 255>>
Clear == <<0, 0, 0, 0>>

Blank(W, H, colour) == [W |-> W, H |-> H, px |-> [p \in (0 .. W - 1) \X (0 .. H - 1) |-> colour]]

\* to_gray of a bitmap whose pixels are opaque (alpha 255) or fully
\* transparent (alpha 0): flattened over white a transparent pixel is white,
\* and convert("L") is (19595 r + 38470 g + 7471 b + 32768) >> 16
to_gray(img) ==
    [W |-> img.W, H |-> img.H,
     px |-> [p \in Pixels(img) |->
                IF img.px[p][4] = 0 THEN MaxGray
                ELSE (19595 * img.px[p][1] + 38470 * img.px[p][2]
                      + 7471 * img.px[p][3] + 32768) \div 65536]]

\* the float literals of the two luminance formulas
LumR  == Lit(2126, 10000)
LumG  == Lit(7152, 10000)
LumB  == Lit(722, 10000)
GrayR == Lit(299, 1000)
GrayG == Lit(587, 1000)
GrayB == Lit(114, 1000)

\* 0.2126 * r + 0.7152 * g + 0.0722 * b
luminance_rgb(px) ==
    FAdd(FAdd(FMul(LumR, FromInt(px[1])), FMul(LumG, FromInt(px[2]))),
         FMul(LumB, FromInt(px[3])))

\* k + 0.5 for an integer k >= 0
Half(k) == [s |-> 1, m |-> BigOf(2 * k + 1), e |-> -1]

\* f = 1.0 / total_modules
InvTotal(total) == FDiv(FromInt(1), FromInt(total))

\* int(round(k * f * L)) for a float k
ScalePx(k, total, L) == PyRound(FMul(FMul(k, InvTotal(total)), FromInt(L)))

cell_bounds(Lw, Lh, total, qz, r, c) ==
    <<ScalePx(FromInt(c + qz), total, Lw), ScalePx(FromInt(r + qz), total, Lh),
      ScalePx(FromInt(c + qz + 1), total, Lw) - 1,
      ScalePx(FromInt(r + qz + 1), total, Lh) - 1>>

\* int(round(lo + (k + 0.5) * (extent / nm)))
SamplePx(lo, extent, nm, k) ==
    PyRound(FAdd(FromInt(lo), FMul(Half(k), FDiv(FromInt(extent), FromInt(nm)))))

\* int(round(0.299*r + 0.587*g + 0.114*b))
GrayOf(px) ==
    PyRound(FAdd(FAdd(FMul(GrayR, FromInt(px[1])), FMul(GrayG, FromInt(px[2]))),
                 FMul(GrayB, FromInt(px[3]))))

\* (gray < geo.thresh) if geo.dark_is_lt else (gray > geo.thresh)
IsDarkGray(v, g) == IF g.dark_is_lt THEN v < g.thresh ELSE v > g.thresh

\* the pixel sampled for module (r, c): the centre of the module in the
\* content box, clamped into the bitmap
SamplePoint(img, g, r, c) ==
    <<clamp(SamplePx(g.content_box[1], g.content_box[3] - g.content_box[1] + 1,
                     g.n_modules, c), 0, img.W - 1),
      clamp(SamplePx(g.content_box[2], g.content_box[4] - g.content_box[2] + 1,
                     g.n_modules, r), 0, img.H - 1)>>

sample_qr_module_dark(img, g, r, c) ==
    IsDarkGray(GrayOf(img.px[SamplePoint(img, g, r, c)]), g)

---------------------------------------------------------------------------
(* pick_logo_color                                                         *)

MinAlpha == 10

\* no pixel: the None of an Optional[RGBA]
NoPix == << >>

center_xy(logo_w, logo_h, total, r, c) ==
    <<clamp(ScalePx(Half(c), total, logo_w), 0, logo_w - 1),
      clamp(ScalePx(Half(r), total, logo_h), 0, logo_h - 1)>>

is_dark_rgba(px, thr) ==
    IF px[4] < MinAlpha THEN FALSE ELSE FLess(luminance_rgb(px), FromInt(thr))

\* the offsets (dr, dc), the origin left out, in the order the two loops
\* generate them: dr ascending, then dc ascending
Offsets(radius) ==
    LET w == 2 * radius + 1
    IN  SelectSeq([i \in 1 .. w * w |->
                      <<((i - 1) \div w) - radius, ((i - 1) % w) - radius>>],
                  LAMBDA o : o # <<0, 0>>)

D2(o) == o[1] * o[1] + o[2] * o[2]

\* x put behind the entries whose key is not greater: list.sort is stable
RECURSIVE InsertStable(_, _)
InsertStable(x, sorted) ==
    IF sorted = << >> THEN <<x>>
    ELSE IF D2(x) < D2(Head(sorted)) THEN <<x>> \o sorted
    ELSE <<Head(sorted)>> \o InsertStable(x, Tail(sorted))

RECURSIVE SortByD2(_, _)
SortByD2(seq, k) ==
    IF k = 0 THEN << >> ELSE InsertStable(seq[k], SortByD2(seq, k - 1))

\* (mutant) the offsets left in generation order
SortedOffsets_Unsorted(radius) == Offsets(radius)

\* offsets.sort(key=lambda t: t[2])
SortedOffsets(radius) == SortByD2(Offsets(radius), (2 * radius + 1) * (2 * radius + 1) - 1)

\* (luminance_rgb(npix[:3]) < thr) == want_dark and (npix[3] >= 10)
NeighbourOk(npix, wd, thr) ==
    (FLess(luminance_rgb(npix), FromInt(thr)) = wd) /\ npix[4] >= MinAlpha

\* 0 <= nr < total and 0 <= nc < total
InGrid(total, nr, nc) == 0 <= nr /\ nr < total /\ 0 <= nc /\ nc < total

\* the module an offset leads to from the target (R, C)
NeighbourOf(R, C, o) == <<R + o[1], C + o[2]>>

\* the pixel sampled for the neighbour module m
NeighbourPixel(lg, logo_w, logo_h, total, m) ==
    lg.px[center_xy(logo_w, logo_h, total, m[1], m[2])]

\* the positions in offs whose neighbour is not skipped by "continue" and
\* passes the test of the loop body
Hits(lg, logo_w, logo_h, total, R, C, wd, thr, offs) ==
    {i \in 1 .. Len(offs) :
        /\ InGrid(total, NeighbourOf(R, C, offs[i])[1], NeighbourOf(R, C, offs[i])[2])
        /\ NeighbourOk(NeighbourPixel(lg, logo_w, logo_h, total,
                                      NeighbourOf(R, C, offs[i])),
                       wd, thr)}

\* the return of the loop: the pixel of the first position that passes, None
\* when the loop runs out
ReturnFirst(lg, logo_w, logo_h, total, R, C, offs, hits) ==
    IF hits = {} THEN NoPix
    ELSE NeighbourPixel(lg, logo_w, logo_h, total,
                        NeighbourOf(R, C, offs[SetMin(hits)]))

\* the loop "for dr, dc, _ in offsets" over the offsets offs
FirstNeighbour(lg, logo_w, logo_h, total, R, C, wd, thr, offs) ==
    ReturnFirst(lg, logo_w, logo_h, total, R, C, offs,
                Hits(lg, logo_w, logo_h, total, R, C, wd, thr, offs))

\* the function from the centre pixel px on
PickFrom(px, lg, logo_w, logo_h, total, R, C, wd, thr, radius) ==
    IF is_dark_rgba(px, thr) = wd THEN px
    ELSE FirstNeighbour(lg, logo_w, logo_h, total, R, C, wd, thr,
                        SortedOffsets(radius))

pick_logo_color(lg, logo_w, logo_h, total, qz, r, c, wd, thr, radius) ==
    PickFrom(lg.px[center_xy(logo_w, logo_h, total, r + qz, c + qz)],
             lg, logo_w, logo_h, total, r + qz, c + qz, wd, thr, radius)

---------------------------------------------------------------------------
(* build_overlay: the colour and the rectangle of a module                 *)

SearchReach == 3
FallbackStrength == 40

\* the scan "for dy in range(-3, 4): for dx in range(-3, 4)" around (cx, cy):
\* the first pixel with alpha >= 10, else opaque black
NearbyOpaque(lg, cx, cy) ==
    LET w == 2 * SearchReach + 1
        spot(i) == <<clamp(cx + (i % w) - SearchReach, 0, lg.W - 1),
                     clamp(cy + (i \div w) - SearchReach, 0, lg.H - 1)>>
        hits == {i \in 0 .. w * w - 1 : lg.px[spot(i)][4] >= MinAlpha}
    IN  IF hits = {} THEN Black ELSE lg.px[spot(SetMin(hits))]

\* base: the centre pixel, or a nearby opaque one when it is transparent
FallbackBase(lg, at) ==
    IF lg.px[at][4] < MinAlpha THEN NearbyOpaque(lg, at[1], at[2]) ELSE lg.px[at]

\* the colour synthesized when pick_logo_color returns None
Synthesize(lg, total, R, C, wd) ==
    adjust_color_toward(FallbackBase(lg, center_xy(lg.W, lg.H, total, R, C)),
                        wd, Strength(FallbackStrength))

WithAlpha(colour, alpha) == <<colour[1], colour[2], colour[3], alpha>>

\* pix after the "if pix is None ... else ..." of the loop body
ResolveColour(picked, lg, total, qz, r, c, wd, alpha) ==
    IF picked = NoPix
    THEN WithAlpha(Synthesize(lg, total, r + qz, c + qz, wd), alpha)
    ELSE WithAlpha(picked, alpha)

\* side = int(max(1, round(min(Lw / total, Lh / total) * square_frac)))
SquareSide(Lw, Lh, total, sf) ==
    Max2(1, PyRound(FMul(FMin(FDiv(FromInt(Lw), FromInt(total)),
                              FDiv(FromInt(Lh), FromInt(total))), sf)))

\* x0 = clamp(cx - half, 0, L - 1) and x1 = clamp(x0 + side - 1, 0, L - 1)
SquareSpan(ctr, side, L) ==
    <<clamp(ctr - side \div 2, 0, L - 1),
      clamp(clamp(ctr - side \div 2, 0, L - 1) + side - 1, 0, L - 1)>>

\* the centred mini-square of module (r, c)
MiniSquare(Lw, Lh, total, qz, r, c, side) ==
    <<SquareSpan(ScalePx(Half(c + qz), total, Lw), side, Lw)[1],
      SquareSpan(ScalePx(Half(r + qz), total, Lh), side, Lh)[1],
      SquareSpan(ScalePx(Half(c + qz), total, Lw), side, Lw)[2],
      SquareSpan(ScalePx(Half(r + qz), total, Lh), side, Lh)[2]>>

\* (mutant) the full cell drawn for a finder module only when skip_finders
\* is set
ModuleRect_FlagAware(Lw, Lh, nm, qz, r, c, sf) ==
    IF args.skip_finders /\ in_finder(nm, r, c)
    THEN cell_bounds(Lw, Lh, nm + 2 * qz, qz, r, c)
    ELSE MiniSquare(Lw, Lh, nm + 2 * qz, qz, r, c,
                    SquareSide(Lw, Lh, nm + 2 * qz, sf))

\* [x0, y0, x1, y1] handed to draw.rectangle for module (r, c)
ModuleRect(Lw, Lh, nm, qz, r, c, sf) ==
    IF in_finder(nm, r, c) THEN cell_bounds(Lw, Lh, nm + 2 * qz, qz, r, c)
    ELSE MiniSquare(Lw, Lh, nm + 2 * qz, qz, r, c,
                    SquareSide(Lw, Lh, nm + 2 * qz, sf))

\* a rectangle whose second corner lies before its first
Inverted(box) == box[3] < box[1] \/ box[4] < box[2]

Swapped(box) ==
    <<Min2(box[1], box[3]), Min2(box[2], box[4]),
      Max2(box[1], box[3]), Max2(box[2], box[4])>>

\* the bitmap with the pixels of the rectangle that lie in it set to colour
Fill(img, box, colour) ==
    [img EXCEPT !.px = [p \in Pixels(img) |->
                           IF /\ box[1] <= p[1] /\ p[1] <= box[3]
                              /\ box[2] <= p[2] /\ p[2] <= box[4]
                           THEN colour ELSE img.px[p]]]

---------------------------------------------------------------------------
(* Helpers of the properties                                               *)

\* a float of small magnitude as the fraction FNum(x) / FDen(x)
FNum(x) == x.s * BigToInt(x.m) * (IF x.e >= 0 THEN Pow2(x.e) ELSE 1)
FDen(x) == IF x.e >= 0 THEN 1 ELSE Pow2(-x.e)

Abs(v) == IF v < 0 THEN -v ELSE v

\* k is the integer nearest to num / den (den > 0), the even one of two
IsRoundOf(k, num, den) ==
    /\ 2 * Abs(num - k * den) <= den
    /\ 2 * Abs(num - k * den) = den => k % 2 = 0

---------------------------------------------------------------------------
(* Groups of variables, and the value each has where a run does not use it *)

otsuVars    == <<gray, qr_threshold, otsu_thresh>>
geoVars     == <<qr_img, modules_override, quiet_override, geo>>
overlayVars == <<logo, args, overlay, rects, want_dark, pix, saved>>
callVars    == <<row, col, rgb, n_modules, finder>>

NoOtsu    == gray = None /\ qr_threshold = NoInt /\ otsu_thresh = None
NoGeo     == qr_img = None /\ modules_override = None /\ quiet_override = None
             /\ geo = None
NoOverlay == logo = None /\ args = None /\ overlay = None /\ rects = << >>
             /\ want_dark = None /\ pix = None /\ saved = None
NoCall    == row = None /\ col = None /\ rgb = None /\ n_modules = None
             /\ finder = None

---------------------------------------------------------------------------
(* SpecOtsu: otsu_threshold applied to a bitmap                            *)

MaxPixels == 5
OtsuLevels == {0, 1, 2, 100, 127, 128, 254, 255}

\* one-row bitmaps of 1..MaxPixels pixels, listed in ascending order (the
\* histogram does not see the order)
OtsuRows ==
    UNION {{s \in [1 .. k -> OtsuLevels] : \A i \in 1 .. k - 1 : s[i] <= s[i + 1]}
           : k \in 1 .. MaxPixels}
RowBitmap(s) == [W |-> Len(s), H |-> 1, px |-> [p \in (0 .. Len(s) - 1) \X {0} |-> s[p[1] + 1]]]

InitOtsu ==
    /\ pc = "start" /\ err = None
    /\ gray \in {RowBitmap(s) : s \in OtsuRows}
    /\ qr_threshold = NoInt /\ otsu_thresh = None
    /\ NoGeo /\ NoOverlay /\ NoCall

RunOtsu ==
    /\ pc = "start"
    /\ otsu_thresh' = otsu_threshold(gray)
    /\ pc' = "done"
    /\ UNCHANGED <<err, gray, qr_threshold, geoVars, overlayVars, callVars>>

NextOtsu == RunOtsu
SpecOtsu == InitOtsu /\ [][NextOtsu]_vars

---------------------------------------------------------------------------
(* C6: what otsu_threshold returns                                         *)

Occupied(g) == {g.px[p] : p \in Pixels(g)}

RECURSIVE SumPx(_, _)
SumPx(g, S) == IF S = {} THEN 0
               ELSE LET p == CHOOSE q \in S : TRUE IN g.px[p] + SumPx(g, S \ {p})

\* the between-class variance of the classes {p : lo <= gray[p] <= t} and
\* {p : gray[p] > t}: 0 when a class is empty
BetweenVar(g, t) ==
    LET B == {p \in Pixels(g) : g.px[p] <= t}
        F == Pixels(g) \ B
    IN  IF B = {} \/ F = {} THEN FZero
        ELSE var_between(Cardinality(B), Cardinality(F), SumPx(g, B),
                         SumPx(g, Pixels(g)))

\* t is the earliest of the candidates T at which Var is greatest
EarliestMax(g, t, T) ==
    /\ t \in T
    /\ \A u \in T : /\ ~FLess(BetweenVar(g, t), BetweenVar(g, u))
                    /\ u < t => FLess(BetweenVar(g, u), BetweenVar(g, t))

\* C6 as stated: the value returned is in 0..255 and is the earliest t
\* maximizing the between-class variance of the classes {< t} and {>= t}
\* (the classes {<= t - 1} and {> t - 1}); checked on the bitmaps with two or
\* more gray levels.  The code contradicts it.
C6_AsStated ==
    (pc = "done" /\ Cardinality(Occupied(gray)) >= 2) =>
        /\ otsu_thresh \in 0 .. NumBins - 1
        /\ \A u \in 0 .. NumBins - 1 :
              /\ ~FLess(BetweenVar(gray, otsu_thresh - 1), BetweenVar(gray, u - 1))
              /\ u < otsu_thresh =>
                    FLess(BetweenVar(gray, u - 1), BetweenVar(gray, otsu_thresh - 1))

\* C6, amended: the value returned is in 0..255.  With two or more gray levels
\* in the bitmap it is the earliest t maximizing the between-class variance
\* (as the floats compute it) of the classes {<= t} and {> t}: the classes of a
\* t between two occupied levels are those of the occupied level below it, and
\* one class is empty below the lowest and from the highest level on, so the
\* candidates are the occupied levels but the highest.  With one gray level it
\* is the fallback 128.  With exactly two levels a < b it is a, which is
\* within 1 of the valley a + 1 .. b - 1.
C6_Otsu ==
    pc = "done" =>
        LET occ == Occupied(gray)
        IN  /\ otsu_thresh \in 0 .. NumBins - 1
            /\ Cardinality(occ) = 1 => otsu_thresh = DefaultThresh
            /\ Cardinality(occ) >= 2 =>
                   EarliestMax(gray, otsu_thresh, occ \ {SetMax(occ)})
            /\ Cardinality(occ) = 2 =>
                   /\ otsu_thresh = SetMin(occ)
                   /\ otsu_thresh >= (SetMin(occ) + 1) - 1
                   /\ otsu_thresh <= (SetMax(occ) - 1) + 1

\* a bitmap of three or more levels whose threshold is not its lowest level
C6_Witness ==
    /\ pc = "done"
    /\ Cardinality(Occupied(gray)) >= 3
    /\ otsu_thresh > SetMin(Occupied(gray))

---------------------------------------------------------------------------
(* SpecExact: geo_from_exact_dims applied to a bitmap and the two          *)
(* overrides (a module count of at least 1, a quiet zone of at least 0)    *)

MaxSide == 8
MaxExactN == 4
MaxExactQ == 2

InitExact ==
    /\ pc = "start" /\ err = None
    /\ NoOtsu /\ NoOverlay /\ NoCall
    /\ qr_img \in {Blank(W, H, White) : W \in 1 .. MaxSide, H \in 1 .. MaxSide}
    /\ modules_override \in 1 .. MaxExactN
    /\ quiet_override \in 0 .. MaxExactQ
    /\ geo = None

\* the outcome of a geometry call stored in the state
SetGeo(res) ==
    /\ geo' = IF res.raised THEN None ELSE res.value
    /\ err' = IF res.raised THEN res.msg ELSE None
    /\ pc'  = IF res.raised THEN "error" ELSE "done"

RunExact ==
    /\ pc = "start"
    /\ SetGeo(geo_from_exact_dims(qr_img, modules_override, quiet_override))
    /\ UNCHANGED <<otsuVars, qr_img, modules_override, quiet_override,
                   overlayVars, callVars>>

NextExact == RunExact
SpecExact == InitExact /\ [][NextExact]_vars

\* the float x is the binary64 nearest to num / den (num, den > 0): with b
\* the length of x's odd mantissa m, half a unit in x's last place is
\* 2^(e + b - 54), so |m * 2^e * den - num| <= den * 2^(e + b - 54)
IsNearestFloat(x, num, den) ==
    LET b  == BigBitLen(x.m)
        k  == MantBits + 1 - b
        lhs == BigShl(BigMulLimb(x.m, den), k)
        rhs == IF k - x.e >= 0 THEN BigShl(BigOf(num), k - x.e) ELSE << >>
        c  == BigCmp(lhs, rhs)
        diff == IF c >= 0 THEN BigSub(lhs, rhs) ELSE BigSub(rhs, lhs)
    IN  /\ x.s = 1 /\ b >= 1 /\ b <= MantBits /\ k - x.e >= 0
        /\ BigCmp(diff, BigOf(den)) <= 0

\* C2: on a bitmap that is not square geo_from_exact_dims raises the
\* invalid-input error and returns no geometry; on a square one of width W it
\* returns n_modules = n, qz_modules = qz, module_px = the float W / (n + 2*qz),
\* thresh = 128 and dark_is_lt = true.
C2_ExactDims ==
    pc # "start" =>
        IF qr_img.W # qr_img.H
        THEN pc = "error" /\ err = ErrNotSquare /\ geo = None
        ELSE /\ pc = "done" /\ err = None
             /\ geo.n_modules = modules_override
             /\ geo.qz_modules = quiet_override
             /\ IsNearestFloat(geo.module_px, qr_img.W,
                               modules_override + 2 * quiet_override)
             /\ geo.thresh = 128
             /\ geo.dark_is_lt = TRUE

\* a square bitmap whose width is no multiple of the grid, with a quiet zone
C2_Witness ==
    /\ pc = "done"
    /\ quiet_override > 0
    /\ qr_img.W % (modules_override + 2 * quiet_override) # 0


---------------------------------------------------------------------------
(* SpecDetect: detect_qr_geometry applied to a grayscale bitmap: a         *)
(* checkerboard of modules in a quiet zone, or any small black/white       *)
(* bitmap; with or without an explicit threshold                           *)

MaxBoardN == 3
MaxBoardQ == 2
MaxBoardP == 2
MaxW == 3
MaxH == 2

\* an N x N checkerboard (module (0, 0) black) of P x P pixel modules inside a
\* white quiet zone of Q modules
Checkerboard(N, Q, P) ==
    LET side == (N + 2 * Q) * P
        mod(v) == (v \div P) - Q
        dark(p) == /\ mod(p[1]) \in 0 .. N - 1 /\ mod(p[2]) \in 0 .. N - 1
                   /\ (mod(p[1]) + mod(p[2])) % 2 = 0
    IN  [W |-> side, H |-> side,
         px |-> [p \in (0 .. side - 1) \X (0 .. side - 1) |->
                    IF dark(p) THEN 0 ELSE MaxGray]]

Boards ==
    {[N |-> N, Q |-> Q, P |-> P, img |-> Checkerboard(N, Q, P)] :
        N \in 1 .. MaxBoardN, Q \in 0 .. MaxBoardQ, P \in 1 .. MaxBoardP}

SmallBitmaps ==
    UNION {{[W |-> W, H |-> H, px |-> f] : f \in [(0 .. W - 1) \X (0 .. H - 1) -> {0, MaxGray}]}
           : <<W, H>> \in (1 .. MaxW) \X (1 .. MaxH)}

QrThresholds == {NoInt, Some(0), Some(128), Some(255)}

InitDetect ==
    /\ pc = "start" /\ err = None
    /\ gray \in {b.img : b \in Boards} \cup SmallBitmaps
    /\ qr_threshold \in QrThresholds
    /\ otsu_thresh = None
    /\ NoGeo /\ NoOverlay /\ NoCall

RunDetect ==
    /\ pc = "start"
    /\ SetGeo(detect_qr_geometry(gray, qr_threshold))
    /\ UNCHANGED <<otsuVars, qr_img, modules_override, quiet_override,
                   overlayVars, callVars>>

NextDetect == RunDetect
SpecDetect == InitDetect /\ [][NextDetect]_vars

\* C1 as stated: from a checkerboard bitmap of N x N modules in a quiet zone
\* of Q modules, without an explicit threshold, detection returns
\* n_modules = N, qz_modules = Q and dark_is_lt = true.  The code contradicts
\* it.
C1_AsStated ==
    \A b \in Boards :
        (pc # "start" /\ gray = b.img /\ qr_threshold = NoInt) =>
            /\ pc = "done"
            /\ geo.n_modules = b.N
            /\ geo.qz_modules = b.Q
            /\ geo.dark_is_lt = TRUE


\* C10 as stated: whenever the two counts differ, the count returned is the
\* width count n_w, and detection raises the module-count error exactly when
\* that count is <= 0.  The code contradicts it.
C10_AsStated ==
    pc # "start" =>
        LET loc == DetectLocals(gray, qr_threshold)
        IN  ("n" \in DOMAIN loc /\ loc.n_w # loc.n_h) =>
                /\ pc = "done" => geo.n_modules = loc.n_w
                /\ err = ErrBadCount <=> loc.n_w <= 0

\* C10, amended: n_w and n_h are the content box's width and height over
\* module_px, each rounded on its own; whenever they differ the count is
\* their mean (n_w + n_h) / 2 rounded to the nearest integer, to the even one
\* when n_w + n_h is odd (the width count does not win); detection raises the
\* module-count error exactly when the resulting count is <= 0.
C10_Count ==
    pc # "start" =>
        LET loc == DetectLocals(gray, qr_threshold)
        IN  IF "n" \notin DOMAIN loc
            THEN pc = "error" /\ err \in {ErrNoModules, ErrNoDark, ErrNoRuns}
            ELSE LET box == loc.content_box
                     mp  == loc.module_px
                     count == IF pc = "done" THEN geo.n_modules ELSE loc.n
                 IN  /\ IsRoundOf(loc.n_w, (box[3] - box[1] + 1) * FDen(mp), FNum(mp))
                     /\ IsRoundOf(loc.n_h, (box[4] - box[2] + 1) * FDen(mp), FNum(mp))
                     /\ loc.n_w # loc.n_h => IsRoundOf(count, loc.n_w + loc.n_h, 2)
                     /\ loc.n_w = loc.n_h => count = loc.n_w
                     /\ pc = "error" <=> count <= 0
                     /\ pc = "error" <=> err = ErrBadCount

\* a bitmap whose counts differ and whose returned count is not the width's
C10_Witness ==
    /\ pc = "done"
    /\ LET loc == DetectLocals(gray, qr_threshold)
       IN  loc.n_w # loc.n_h /\ geo.n_modules # loc.n_w /\ geo.n_modules # loc.n_h

\* a bitmap on which the module-count error is raised
C10_WitnessError == pc = "error" /\ err = ErrBadCount

\* the number of pixels of the bitmap below, and above, the level t
CountLt(t) == Cardinality({p \in Pixels(gray) : gray.px[p] < t})
CountGt(t) == Cardinality({p \in Pixels(gray) : gray.px[p] > t})

\* what C11 says of a call whose locals are loc, the masks counted afresh
MasksAsClaimed(loc, c_lt, c_gt) ==
    /\ (c_lt # 0 \/ c_gt # 0) =>
          /\ loc.use_lt <=> c_lt >= c_gt
          /\ (IF loc.use_lt THEN c_lt ELSE c_gt) > 0
          /\ ~loc.retried
          /\ err # ErrNoDark
    /\ err = ErrNoModules <=> (c_lt = 0 /\ c_gt = 0)

\* C11: for every bitmap and threshold t, if the masks gray < t and gray > t
\* are not both empty, the mask chosen (the one with more pixels, "<" on a
\* tie) is not empty, so the retry with the widened threshold is not run and
\* the "no dark modules" error is not raised; the "no modules" error is raised
\* exactly when both masks are empty.
C11_Masks ==
    pc # "start" =>
        MasksAsClaimed(DetectLocals(gray, qr_threshold),
                       CountLt(DetectLocals(gray, qr_threshold).t),
                       CountGt(DetectLocals(gray, qr_threshold).t))

\* a call in which the mask gray < t is empty and the other one is chosen
C11_Witness ==
    /\ pc = "done" /\ qr_threshold # NoInt
    /\ CountLt(qr_threshold[1]) = 0 /\ CountGt(qr_threshold[1]) > 0
    /\ geo.dark_is_lt = FALSE

\* a call on a flat bitmap: both masks empty
C11_WitnessFlat ==
    /\ pc = "error" /\ err = ErrNoModules /\ qr_threshold # NoInt
    /\ CountLt(qr_threshold[1]) = 0 /\ CountGt(qr_threshold[1]) = 0

---------------------------------------------------------------------------
(* SpecFinder: in_finder applied to a module count and a position, the     *)
(* positions one step outside the grid included                            *)

MaxFinderN == 25

InitFinder ==
    /\ pc = "start" /\ err = None
    /\ NoOtsu /\ NoGeo /\ NoOverlay
    /\ n_modules \in 1 .. MaxFinderN
    /\ row \in -1 .. n_modules
    /\ col \in -1 .. n_modules
    /\ rgb = None /\ finder = None

RunFinder ==
    /\ pc = "start"
    /\ finder' = in_finder(n_modules, row, col)
    /\ pc' = "done"
    /\ UNCHANGED <<err, otsuVars, geoVars, overlayVars, row, col, rgb, n_modules>>

NextFinder == RunFinder
SpecFinder == InitFinder /\ [][NextFinder]_vars

\* C7: in_finder(n, r, c) is true exactly when (r, c) lies in the top-left
\* square (rows and columns 0..6), the top-right square (rows 0..6, columns
\* n-7..n-1) or the bottom-left square (rows n-7..n-1, columns 0..6); for
\* n >= 21 no module of the bottom-right square (rows and columns n-7..n-1)
\* is a finder module; for n = 25 the modules (0,0), (0,24), (24,0) are finder
\* modules and (24,24), (12,12) are not.
C7_Finder ==
    pc = "done" =>
        LET nm == n_modules
            squares == ((0 .. 6) \X (0 .. 6)) \cup ((0 .. 6) \X (nm - 7 .. nm - 1))
                       \cup ((nm - 7 .. nm - 1) \X (0 .. 6))
        IN  /\ finder = (<<row, col>> \in squares)
            /\ (nm >= 21 /\ row \in nm - 7 .. nm - 1 /\ col \in nm - 7 .. nm - 1)
                  => finder = FALSE
            /\ (nm = 25 /\ <<row, col>> \in {<<0, 0>>, <<0, 24>>, <<24, 0>>})
                  => finder = TRUE
            /\ (nm = 25 /\ <<row, col>> \in {<<24, 24>>, <<12, 12>>})
                  => finder = FALSE

\* the bottom-right corner module of a 25-module code, found not to be a finder
C7_Witness ==
    pc = "done" /\ n_modules = 25 /\ row = 24 /\ col = 24 /\ finder = FALSE

---------------------------------------------------------------------------
(* SpecAdjust: adjust_color_toward applied to a colour, a direction and a  *)
(* strength (0.40 as build_overlay passes it, 0.35 the default)            *)

AdjustStrengths == {35, 40}
AdjustColours ==
    {<<v, v, v>> : v \in 0 .. MaxChannel}
    \cup {<<0, 128, 255>>, <<255, 0, 128>>, <<1, 2, 3>>, <<200, 100, 50>>}

InitAdjust ==
    /\ pc = "start" /\ err = None
    /\ NoOtsu /\ NoGeo
    /\ logo = None /\ overlay = None /\ rects = << >> /\ saved = None
    /\ args \in {[strength |-> s] : s \in AdjustStrengths}
    /\ pix \in AdjustColours
    /\ want_dark \in BOOLEAN
    /\ NoCall

RunAdjust ==
    /\ pc = "start"
    /\ rgb' = adjust_color_toward(pix, want_dark, Strength(args.strength))
    /\ pc' = "done"
    /\ UNCHANGED <<err, otsuVars, geoVars, overlayVars, row, col, n_modules, finder>>

NextAdjust == RunAdjust
SpecAdjust == InitAdjust /\ [][NextAdjust]_vars

\* C5 as stated: with strength 0.40, (128,128,128) pushed toward dark yields
\* (77,77,77) and pushed toward light yields (204,204,204).  The code
\* contradicts the second value.
C5_AsStated ==
    (pc = "done" /\ args.strength = 40 /\ pix = <<128, 128, 128>>) =>
        rgb = IF want_dark THEN <<77, 77, 77>> ELSE <<204, 204, 204>>

\* C5, amended: with strength 0.40 each channel v moves 40% of the distance
\* left to 0 (toward dark: 0.6 * v) or to 255 (toward light: v + 0.4 * (255 -
\* v)), rounded to the nearest integer, and stays in 0..255; (128,128,128)
\* pushed toward dark yields (77,77,77), pushed toward light (179,179,179).
C5_Adjust ==
    (pc = "done" /\ args.strength = 40) =>
        /\ \A i \in 1 .. 3 :
              /\ rgb[i] \in 0 .. MaxChannel
              /\ want_dark => IsRoundOf(rgb[i], 6 * pix[i], 10)
              /\ ~want_dark => IsRoundOf(rgb[i], 10 * pix[i] + 4 * (MaxChannel - pix[i]), 10)
        /\ pix = <<128, 128, 128>> =>
              rgb = IF want_dark THEN <<77, 77, 77>> ELSE <<179, 179, 179>>

\* mid-gray pushed toward light with strength 0.40
C5_Witness ==
    /\ pc = "done" /\ args.strength = 40 /\ pix = <<128, 128, 128>>
    /\ ~want_dark /\ rgb = <<179, 179, 179>>

---------------------------------------------------------------------------
(* Spec: build_overlay.  The geometry is obtained from the overrides or by *)
(* detection, then the loop body runs once per module, row by row, and the *)
(* overlay is saved.  modules_override, quiet_override and qr_threshold    *)
(* are Optional[int] here; args holds square_frac (in hundredths), radius, *)
(* threshold_logo, alpha and skip_finders.                                 *)

MaxGridN == 9
MaxQuiet == 2
MaxScale == 3
DefaultLogoThresh == 145

DarkInk  == <<200, 0, 0, 255>>
LightInk == <<0, 200, 255, 255>>

LogoStyles == {"dark", "light", "clear", "halves", "speck"}

LogoPixel(style, Lw, p) ==
    CASE style = "dark"   -> DarkInk
      [] style = "light"  -> LightInk
      [] style = "clear"  -> Clear
      [] style = "halves" -> (IF 2 * p[1] < Lw THEN DarkInk ELSE LightInk)
      [] style = "speck"  -> (IF p = <<0, 0>> THEN LightInk ELSE Clear)

\* a logo bitmap: all dark, all light, all transparent, a dark and a light
\* half, or transparent but for one light pixel
Logo(style, Lw, Lh) ==
    [W |-> Lw, H |-> Lh,
     px |-> [p \in (0 .. Lw - 1) \X (0 .. Lh - 1) |-> LogoPixel(style, Lw, p)]]

\* the opaque RGBA bitmap of a checkerboard QR code
QrBitmap(N, Q, P) ==
    [W |-> (N + 2 * Q) * P, H |-> (N + 2 * Q) * P,
     px |-> [p \in (0 .. (N + 2 * Q) * P - 1) \X (0 .. (N + 2 * Q) * P - 1) |->
                IF Checkerboard(N, Q, P).px[p] = 0 THEN Black ELSE White]]

Arguments(sf, radius, alpha, skip) ==
    [square_frac |-> sf, radius |-> radius, threshold_logo |-> DefaultLogoThresh,
     alpha |-> alpha, skip_finders |-> skip]

\* runs with both overrides over grids and logo sizes: a logo of one pixel,
\* of one pixel per module, of MaxScale pixels per module
GridRuns ==
    {[qr_img |-> QrBitmap(nm, qz, 1), mo |-> Some(nm), qo |-> Some(qz), tq |-> NoInt,
      logo |-> Logo("halves", IF k = 0 THEN 1 ELSE k * (nm + 2 * qz),
                              IF k = 0 THEN 1 ELSE k * (nm + 2 * qz)),
      args |-> Arguments(95, 1, 255, TRUE)] :
        nm \in {1, 2, MaxGridN - 1, MaxGridN}, qz \in 0 .. MaxQuiet,
        k \in {0, 1, MaxScale}}

\* runs with both overrides over the arguments, on a logo that is not square;
\* the QR bitmap has two pixels per module, so that the centre sampled for a
\* module lies in that module and both darknesses are wanted
ArgumentRuns ==
    {[qr_img |-> QrBitmap(MaxGridN - 1, 1, 2), mo |-> Some(MaxGridN - 1),
      qo |-> Some(1), tq |-> NoInt,
      logo |-> Logo(style, 2 * (MaxGridN + 1), 2 * (MaxGridN + 1) + 1),
      args |-> Arguments(sf, radius, 128, TRUE)] :
        style \in LogoStyles, sf \in {5, 50, 95}, radius \in {0, 1}}

\* runs that detect the geometry, and runs whose geometry call fails
DetectRuns ==
    {[qr_img |-> img, mo |-> NoInt, qo |-> qo, tq |-> tq,
      logo |-> Logo("halves", 6, 6), args |-> Arguments(50, 1, 255, skip)] :
        img \in {QrBitmap(2, 0, 2), QrBitmap(3, 1, 2), Blank(2, 3, White)},
        qo \in {NoInt, Some(1)}, tq \in {NoInt, Some(128), Some(255)},
        skip \in BOOLEAN}
    \cup
    {[qr_img |-> Blank(2, 3, White), mo |-> Some(2), qo |-> Some(0), tq |-> NoInt,
      logo |-> Logo("dark", 2, 2), args |-> Arguments(50, 1, 255, skip)] :
        skip \in BOOLEAN}

OverlayRuns == GridRuns \cup ArgumentRuns \cup DetectRuns

Init ==
    /\ pc = "start" /\ err = None
    /\ gray = None /\ otsu_thresh = None /\ geo = None
    /\ \E run \in OverlayRuns :
          /\ qr_img = run.qr_img
          /\ modules_override = run.mo /\ quiet_override = run.qo
          /\ qr_threshold = run.tq
          /\ logo = run.logo /\ args = run.args
    /\ overlay = None /\ rects = << >> /\ want_dark = None /\ pix = None
    /\ saved = None
    /\ NoCall

ErrDraw == "x1 must be greater than or equal to x0"

\* the state once the geometry call has returned or raised: the overlay is
\* created transparent, of the logo's size, and the loop starts at (0, 0)
Prepare(res) ==
    /\ geo' = IF res.raised THEN None ELSE res.value
    /\ err' = IF res.raised THEN res.msg ELSE None
    /\ pc'  = IF res.raised THEN "error" ELSE "loop"
    /\ overlay' = IF res.raised THEN None ELSE Blank(logo.W, logo.H, Clear)
    /\ row' = IF res.raised THEN None ELSE 0
    /\ col' = IF res.raised THEN None ELSE 0

\* build_overlay up to the loop
LocateModules ==
    /\ pc = "start"
    /\ IF modules_override # NoInt /\ quiet_override # NoInt
       THEN /\ Prepare(geo_from_exact_dims(qr_img, modules_override[1],
                                           quiet_override[1]))
            /\ gray' = gray
       ELSE /\ Prepare(detect_qr_geometry(to_gray(qr_img), qr_threshold))
            /\ gray' = to_gray(qr_img)
    /\ UNCHANGED <<qr_threshold, otsu_thresh, qr_img, modules_override,
                   quiet_override, logo, args, rects, want_dark, pix, saved,
                   rgb, n_modules, finder>>

\* the loop moves on to the next module
Advance ==
    /\ pc' = "loop" /\ err' = err
    /\ IF col + 1 < geo.n_modules THEN row' = row /\ col' = col + 1
       ELSE row' = row + 1 /\ col' = 0

\* draw.rectangle([x0, y0, x1, y1], fill=pix).  Of a rectangle with x1 < x0 or
\* y1 < y0 a Pillow before 9.5 fills the rectangle between the swapped ends,
\* a later one raises ValueError.
Draw(wd, colour, box) ==
    /\ want_dark' = wd /\ pix' = colour
    /\ rects' = Append(rects, [row |-> row, col |-> col, box |-> box])
    /\ \/ /\ ~Inverted(box)
          /\ overlay' = Fill(overlay, box, colour)
          /\ Advance
       \/ /\ Inverted(box)
          /\ overlay' = Fill(overlay, Swapped(box), colour)
          /\ Advance
       \/ /\ Inverted(box)
          /\ overlay' = overlay
          /\ pc' = "error" /\ err' = ErrDraw
          /\ UNCHANGED <<row, col>>

\* the loop body from want_dark on
Compose(wd) ==
    Draw(wd,
         ResolveColour(pick_logo_color(logo, logo.W, logo.H,
                                       geo.n_modules + 2 * geo.qz_modules,
                                       geo.qz_modules, row, col, wd,
                                       args.threshold_logo, args.radius),
                       logo, geo.n_modules + 2 * geo.qz_modules, geo.qz_modules,
                       row, col, wd, args.alpha),
         ModuleRect(logo.W, logo.H, geo.n_modules, geo.qz_modules, row, col,
                    Lit(args.square_frac, 100)))

\* one pass of the body of "for row ... for col ..."
PaintModule ==
    /\ pc = "loop" /\ row < geo.n_modules
    /\ Compose(sample_qr_module_dark(qr_img, geo, row, col))
    /\ UNCHANGED <<gray, qr_threshold, otsu_thresh, qr_img, modules_override,
                   quiet_override, geo, logo, args, saved, rgb, n_modules,
                   finder>>

\* overlay.save after the loop
Save ==
    /\ pc = "loop" /\ row = geo.n_modules
    /\ pc' = "done"
    /\ saved' = overlay
    /\ UNCHANGED <<err, otsuVars, geoVars, logo, args, overlay, rects, want_dark,
                   pix, callVars>>

Next == LocateModules \/ PaintModule \/ Save
Spec == Init /\ [][Next]_vars

\* the rectangle lies inside a bitmap of the logo's size
InsideLogo(box) ==
    /\ 0 <= box[1] /\ box[3] <= logo.W - 1
    /\ 0 <= box[2] /\ box[4] <= logo.H - 1

\* C3 as stated: once the geometry is obtained the loop has no failure path:
\* for every module a colour is resolved and a rectangle with x0 <= x1 and
\* y0 <= y1 lying inside the overlay is painted, so every module is painted
\* with at least one pixel.  The code contradicts it.
C3_AsStated ==
    /\ err # ErrDraw
    /\ \A i \in 1 .. Len(rects) :
          /\ ~Inverted(rects[i].box)
          /\ InsideLogo(rects[i].box)
    /\ pc = "done" => Len(rects) = geo.n_modules * geo.n_modules

\* the columns (L = logo.W) or rows (L = logo.H) of the overlay covered by
\* the cells cell_bounds gives the n_modules content modules
ContentSpan(L) ==
    UNION {ScalePx(FromInt(k + geo.qz_modules), geo.n_modules + 2 * geo.qz_modules, L)
           .. ScalePx(FromInt(k + geo.qz_modules + 1),
                      geo.n_modules + 2 * geo.qz_modules, L) - 1
           : k \in 0 .. geo.n_modules - 1}

\* every overlay pixel outside the columns cols or outside the rows rws has
\* alpha 0
ClearOutside(cols, rws) ==
    \A p \in Pixels(overlay) :
        (p[1] \notin cols \/ p[2] \notin rws) => overlay.px[p][4] = 0

\* no rectangle drawn so far had x1 < x0 or y1 < y0
NoneInverted == \A i \in 1 .. Len(rects) : ~Inverted(rects[i].box)

\* C8 as stated: the overlay has the logo's pixel dimensions and starts with
\* alpha 0 everywhere, and after compositing every overlay pixel outside the
\* cells (cell_bounds) of the content modules still has alpha 0.  Stated for
\* the runs in which every rectangle drawn had x0 <= x1 and y0 <= y1.  The
\* code contradicts it.
C8_AsStated ==
    (pc \in {"loop", "done"} /\ NoneInverted) =>
        /\ overlay.W = logo.W /\ overlay.H = logo.H
        /\ rects = << >> => ClearOutside({}, {})
        /\ pc = "done" => ClearOutside(ContentSpan(logo.W), ContentSpan(logo.H))

\* the two rectangles share a pixel
Overlap(a, b) ==
    ~(a[3] < b[1] \/ b[3] < a[1] \/ a[4] < b[2] \/ b[4] < a[2])

\* C9 as stated: the rectangle painted for a module shares no overlay pixel
\* with the rectangle painted for any other module.  Stated for the runs in
\* which every rectangle drawn had x0 <= x1 and y0 <= y1, of the module just
\* painted against those painted before.  The code contradicts it.
C9_AsStated ==
    NoneInverted =>
        \A i \in 1 .. Len(rects) - 1 :
            ~Overlap(rects[i].box, rects[Len(rects)].box)

\* what pick_logo_color returned for the module painted last
LastPicked ==
    pick_logo_color(logo, logo.W, logo.H,
                    geo.n_modules + 2 * geo.qz_modules, geo.qz_modules,
                    rects[Len(rects)].row, rects[Len(rects)].col, want_dark,
                    args.threshold_logo, args.radius)

\* the colour has the darkness wd under the logo classification
HasDarkness(colour, wd) ==
    FLess(luminance_rgb(colour), FromInt(args.threshold_logo)) <=> wd

\* C13 as stated: whenever pick_logo_color returns a pixel for a module, the
\* colour painted (the pixel's RGB with the overlay alpha, alpha >= 10) has
\* the wanted darkness: luminance < threshold_logo when want_dark, and
\* >= threshold_logo when not, also when the logo's centre pixel is
\* transparent.  The code contradicts it.
C13_AsStated ==
    (rects # << >> /\ args.alpha >= MinAlpha /\ LastPicked # NoPix)
        => HasDarkness(pix, want_dark)

---------------------------------------------------------------------------
(* SpecFlag: two runs of build_overlay that agree on every input but       *)
(* skip_finders.  The first run is made with skip_finders set, as main     *)
(* passes it without --no_skip_finders, and saves its overlay; the second  *)
(* run is made on the same inputs with --no_skip_finders.                  *)

InitFlag == Init /\ args.skip_finders

\* the second call of build_overlay, with skip_finders = not True
RunAgain ==
    /\ pc = "done" /\ args.skip_finders
    /\ pc' = "start"
    /\ args' = [args EXCEPT !.skip_finders = FALSE]
    /\ gray' = None /\ geo' = None /\ overlay' = None /\ rects' = << >>
    /\ want_dark' = None /\ pix' = None /\ row' = None /\ col' = None
    /\ UNCHANGED <<err, qr_threshold, otsu_thresh, qr_img, modules_override,
                   quiet_override, logo, saved, rgb, n_modules, finder>>

NextFlag == LocateModules \/ PaintModule \/ Save \/ RunAgain
SpecFlag == InitFlag /\ [][NextFlag]_vars

\* the loop of the second run has ended
SecondLoopEnded ==
    pc = "loop" /\ row = geo.n_modules /\ ~args.skip_finders

---------------------------------------------------------------------------
(* SpecPick: pick_logo_color applied to a logo of one pixel per module, a  *)
(* target module, a wanted darkness and a radius.  args holds radius,      *)
(* threshold_logo, total_modules and qz.  Each pixel carries its position  *)
(* in its red and blue channels, so the pixel returned tells the module it *)
(* was taken from.                                                         *)

MaxRadius == 2
MaxPickTotal == 5

PickClasses == {"dark", "light", "cleardark", "clearlight"}

\* dark and opaque; light with the least alpha taken as opaque; dark with
\* the greatest alpha taken as transparent; light and fully transparent
Ink(class, p) ==
    CASE class = "dark"       -> <<p[1], 0, p[2], 255>>
      [] class = "light"      -> <<p[1], 255, p[2], MinAlpha>>
      [] class = "cleardark"  -> <<p[1], 0, p[2], MinAlpha - 1>>
      [] class = "clearlight" -> <<p[1], 255, p[2], 0>>

\* the pixels that may differ from the background
Spots == {<<2, 2>>, <<1, 1>>, <<3, 2>>, <<2, 3>>, <<2, 0>>, <<4, 4>>}
SpotSets == {S \in SUBSET Spots : Cardinality(S) <= 2}

PickLogo(bg, sc, S) ==
    [W |-> MaxPickTotal, H |-> MaxPickTotal,
     px |-> [p \in (0 .. MaxPickTotal - 1) \X (0 .. MaxPickTotal - 1) |->
                Ink(IF p \in S THEN sc ELSE bg, p)]]

PickLogos == {PickLogo(bg, sc, S) : bg \in PickClasses, sc \in PickClasses, S \in SpotSets}

\* <<qz, row, col>>: the middle module, a module next to the quiet zone, a
\* corner module
PickTargets == {<<0, 2, 2>>, <<1, 0, 0>>, <<0, 0, MaxPickTotal - 1>>}

InitPick ==
    /\ pc = "start" /\ err = None
    /\ NoOtsu /\ NoGeo
    /\ logo \in PickLogos
    /\ \E radius \in 0 .. MaxRadius, t \in PickTargets :
          /\ args = [radius |-> radius, threshold_logo |-> DefaultLogoThresh,
                     total_modules |-> MaxPickTotal, qz |-> t[1]]
          /\ row = t[2] /\ col = t[3]
    /\ want_dark \in BOOLEAN
    /\ overlay = None /\ rects = << >> /\ pix = None /\ saved = None
    /\ rgb = None /\ n_modules = None /\ finder = None

RunPick ==
    /\ pc = "start"
    /\ pix' = pick_logo_color(logo, logo.W, logo.H, args.total_modules, args.qz,
                              row, col, want_dark, args.threshold_logo, args.radius)
    /\ pc' = "done"
    /\ UNCHANGED <<err, otsuVars, geoVars, logo, args, overlay, rects, want_dark,
                   saved, callVars>>

NextPick == RunPick
SpecPick == InitPick /\ [][NextPick]_vars

\* the pixel at the centre of module (R, C) of the total grid
CentrePixel(R, C) ==
    logo.px[center_xy(logo.W, logo.H, args.total_modules, R, C)]

\* the offsets of the neighbour modules that can be returned: inside the
\* total grid, of the wanted darkness, with alpha >= 10
Candidates(R, C) ==
    {o \in ((-args.radius .. args.radius) \X (-args.radius .. args.radius)) \ {<<0, 0>>} :
        /\ R + o[1] \in 0 .. args.total_modules - 1
        /\ C + o[2] \in 0 .. args.total_modules - 1
        /\ CentrePixel(R + o[1], C + o[2])[4] >= 10
        /\ is_dark_rgba(CentrePixel(R + o[1], C + o[2]), args.threshold_logo) = want_dark}

\* offset a comes before offset b: nearer, or as near and generated earlier
Before(a, b) ==
    \/ D2(a) < D2(b)
    \/ D2(a) = D2(b) /\ (a[1] < b[1] \/ (a[1] = b[1] /\ a[2] <= b[2]))

\* what C4 says of the call on the target (R, C) of the total grid
PickIsNearest(R, C, cands) ==
    /\ is_dark_rgba(CentrePixel(R, C), args.threshold_logo) = want_dark
          => pix = CentrePixel(R, C)
    /\ is_dark_rgba(CentrePixel(R, C), args.threshold_logo) # want_dark
          => /\ pix = NoPix <=> cands = {}
             /\ \A o \in cands :
                   (\A q \in cands : Before(o, q))
                       => pix = CentrePixel(R + o[1], C + o[2])
    /\ (args.radius = 0 /\ pix # NoPix)
          => is_dark_rgba(CentrePixel(R, C), args.threshold_logo) = want_dark

\* C4: when the centre pixel of the target module has not the wanted
\* darkness, pick_logo_color returns the pixel of the neighbour module, inside
\* the total grid and at an offset in [-radius, radius]^2 other than the
\* origin, that has the wanted darkness and alpha >= 10 and is nearest in
\* squared distance, the earliest generated (dr ascending, then dc
\* ascending) of the nearest; it returns nothing exactly when there is no such
\* neighbour.  With radius 0 it returns a pixel only if the centre pixel has
\* the wanted darkness.
C4_Pick ==
    pc = "done" =>
        PickIsNearest(row + args.qz, col + args.qz,
                      Candidates(row + args.qz, col + args.qz))

\* a call that returns a neighbour at distance 1 although a matching neighbour
\* at a greater distance was generated before it
C4_Witness ==
    /\ pc = "done" /\ pix # NoPix
    /\ pix # CentrePixel(row + args.qz, col + args.qz)
    /\ \E o \in Candidates(row + args.qz, col + args.qz) :
          /\ pix = CentrePixel(row + args.qz + o[1], col + args.qz + o[2])
          /\ D2(o) = 1
          /\ \E q \in Candidates(row + args.qz, col + args.qz) :
                D2(q) > 1 /\ (q[1] < o[1] \/ (q[1] = o[1] /\ q[2] < o[2]))

\* a call that returns nothing at a radius of 1 or more
C4_WitnessNone ==
    pc = "done" /\ pix = NoPix /\ args.radius >= 1


============================================================================
